---- MODULE Spec2Model ----
(***************************************************************************)
(* Expense Tracker: the storage layer (db.py) and the Streamlit pages      *)
(* (app.py) as a state machine.                                            *)
(*                                                                         *)
(* Amounts are counted in cents.  A calendar date is a day number counted  *)
(* from 2023-01-01; the TEXT form 'YYYY-MM-DD' that the table stores is    *)
(* the triple <<year, month, day>>, whose lexicographic order is the       *)
(* order of the zero-padded string.  A text (notes, search term) is a      *)
(* sequence of one-character strings.                                      *)
(***************************************************************************)
EXTENDS Integers, Sequences, FiniteSets, TLC

VARIABLES
    schema,   \* the database files in which the expenses table exists
    stores,   \* path -> the expenses table: its rows in rowid order, and
              \* seq, its sqlite_sequence entry (AUTOINCREMENT)
    now,      \* the wall clock, in ticks
    today,    \* the calendar day (date.today())
    demos,    \* demo batches generated so far
    last      \* the last operation: its inputs and what it produced

vars == <<schema, stores, now, today, demos, last>>

----------------------------------------------------------------------------
\* Bounds of the model.

\* rows inserted one at a time
MaxRows == 2
\* demo batches
MaxDemo == 1
\* clock ticks
MaxTime == 2
\* clock ticks per second of CURRENT_TIMESTAMP
TicksPerSec == 2

----------------------------------------------------------------------------
\* Program constants.

DB_PATH == "data/expenses.db"
OTHER_PATH == "other/expenses.db"
Paths == {DB_PATH, OTHER_PATH}

categories ==
    <<"Housing", "Food", "Transportation", "Utilities", "Entertainment",
      "Healthcare", "Other">>

DemoRows == 60
DemoMaxDaysBack == 365
DemoMinCents == 500
DemoMaxCents == 80000
DemoNote == <<"D", "e", "m", "o", " ", "e", "x", "p", "e", "n", "s", "e">>

\* Python's None / SQL NULL; never equal to a text, whose elements are
\* single characters.
None == <<"<None>">>

Range(s) == {s[i] : i \in 1..Len(s)}

----------------------------------------------------------------------------
\* The calendar.

IsLeap(y) == (y % 4 = 0 /\ y % 100 # 0) \/ y % 400 = 0
DaysInYear(y) == IF IsLeap(y) THEN 366 ELSE 365
DaysInMonth(y, m) ==
    IF m = 2 THEN (IF IsLeap(y) THEN 29 ELSE 28)
    ELSE IF m \in {4, 6, 9, 11} THEN 30 ELSE 31

RECURSIVE YearFrom(_, _)
YearFrom(y, n) ==
    IF n < DaysInYear(y) THEN <<y, n>> ELSE YearFrom(y + 1, n - DaysInYear(y))

RECURSIVE MonthFrom(_, _, _)
MonthFrom(y, m, n) ==
    IF n < DaysInMonth(y, m) THEN <<y, m, n + 1>>
    ELSE MonthFrom(y, m + 1, n - DaysInMonth(y, m))

\* the calendar date <<year, month, day>> of day number n
DateOfDay(n) ==
    LET yn == YearFrom(2023, n) IN MonthFrom(yn[1], 1, yn[2])

RECURSIVE DaysBeforeYear(_)
DaysBeforeYear(y) ==
    IF y <= 2023 THEN 0 ELSE DaysBeforeYear(y - 1) + DaysInYear(y - 1)

RECURSIVE DaysBeforeMonth(_, _)
DaysBeforeMonth(y, m) ==
    IF m <= 1 THEN 0 ELSE DaysBeforeMonth(y, m - 1) + DaysInMonth(y, m - 1)

\* day number of a calendar date given as year, month, day
Day(y, m, d) == DaysBeforeYear(y) + DaysBeforeMonth(y, m) + d - 1

\* The days and the years of the model's calendar, tabulated.
Years == 2023..2025
Days == 0..Day(2025, 12, 31)
DateTable == [n \in Days |-> DateOfDay(n)]
MonthStartTable == [y \in Years |-> [m \in 1..12 |-> Day(y, m, 1)]]

\* date.strftime("%Y-%m-%d") of day number n
strftime(n) == DateTable[n]

\* pd.to_datetime of the text <<y, m, d>>
to_datetime(s) == MonthStartTable[s[1]][s[2]] + s[3] - 1

\* TEXT comparison of two stored dates
TextLess(a, b) ==
    \/ a[1] < b[1]
    \/ a[1] = b[1] /\ a[2] < b[2]
    \/ a[1] = b[1] /\ a[2] = b[2] /\ a[3] < b[3]

----------------------------------------------------------------------------
\* db.py

\* CURRENT_TIMESTAMP: the clock, to the second
CURRENT_TIMESTAMP(clock) == clock \div TicksPerSec

\* init_db: CREATE TABLE IF NOT EXISTS
init_db(sch, path) == sch \cup {path}

\* The two kinds of value add_expense takes as date_str: a date object (a
\* day number) and a string (the text of a date).
DateObj(n) == [type |-> "date", day |-> n]
DateText(s) == [type |-> "str", text |-> s]

\* add_expense, lines 41-42: a date object is formatted, a string is kept
NormalizeDate(date_str) ==
    IF date_str.type = "date" THEN strftime(date_str.day) ELSE date_str.text

\* add_expense with the id of the newest row given again
add_expense_same_id(table, clock, amount, category, date_str, notes) ==
    [rows |-> Append(table.rows,
                     [id |-> IF table.seq = 0 THEN 1 ELSE table.seq,
                      amount |-> amount, category |-> category,
                      date |-> NormalizeDate(date_str), notes |-> notes,
                      created_at |-> CURRENT_TIMESTAMP(clock)]),
     seq |-> table.seq + 1]

\* add_expense as an upsert: a row of the same date and category is replaced
add_expense_upsert(table, clock, amount, category, date_str, notes) ==
    LET row == [id |-> table.seq + 1, amount |-> amount,
                category |-> category, date |-> NormalizeDate(date_str),
                notes |-> notes, created_at |-> CURRENT_TIMESTAMP(clock)]
        same(r) == r.date = row.date /\ r.category = row.category
    IN  [rows |-> Append(SelectSeq(table.rows, LAMBDA r : ~same(r)), row),
         seq |-> table.seq + 1]

\* add_expense, lines 43-50: INSERT INTO expenses (amount, category, date,
\* notes); id and created_at are the table's defaults
add_expense(table, clock, amount, category, date_str, notes) ==
    [rows |-> Append(table.rows,
                     [id |-> table.seq + 1, amount |-> amount,
                      category |-> category, date |-> NormalizeDate(date_str),
                      notes |-> notes,
                      created_at |-> CURRENT_TIMESTAMP(clock)]),
     seq |-> table.seq + 1]

\* ORDER BY date DESC, created_at DESC: whether row a sorts strictly before b
OrderBefore(a, b) ==
    \/ TextLess(b.date, a.date)
    \/ a.date = b.date /\ a.created_at > b.created_at

\* Rows with equal date and created_at come in an order SQL leaves open: the
\* scan order of the table ("scan") or its reverse ("reverse").
TieOrders == {"scan", "reverse"}

\* whether row a comes before row b in the result; ids follow the scan order
ComesBefore(a, b, tie) ==
    \/ OrderBefore(a, b)
    \/ /\ ~OrderBefore(b, a)
       /\ IF tie = "scan" THEN a.id < b.id ELSE a.id > b.id

\* the rows in the order of ORDER BY date DESC, created_at DESC
OrderBy(rows, tie) == SortSeq(rows, LAMBDA a, b : ComesBefore(a, b, tie))

\* fetch_expenses, lines 60-61: the date column parsed
ParseDates(rows) ==
    [i \in 1..Len(rows) |-> [rows[i] EXCEPT !.date = to_datetime(rows[i].date)]]

\* fetch_expenses: SELECT * ... ORDER BY, then the dates parsed
fetch_expenses(table, tie) == ParseDates(OrderBy(table.rows, tie))

\* The random module: a generator state, stepped once per draw.
NextRandom(rng) == ((rng * 25173) + 13849) % 65536
randint(rng, lo, hi) == lo + ((rng \div 16) % (hi - lo + 1))

\* add_demo_data, lines 71-78: the loop, from iteration i on.  Every insert
\* goes to add_expense's default path, whose table is `table`.
RECURSIVE DemoLoop(_, _, _, _, _)
DemoLoop(i, rng, table, clock, day) ==
    IF i >= DemoRows THEN table
    ELSE LET r1 == NextRandom(rng)
             r2 == NextRandom(r1)
             r3 == NextRandom(r2)
             d  == day - randint(r1, 0, DemoMaxDaysBack)
             t  == add_expense(table, clock,
                               randint(r2, DemoMinCents, DemoMaxCents),
                               categories[randint(r3, 1, Len(categories))],
                               DateText(strftime(d)), DemoNote)
         IN  IF t.seq > table.seq /\ r3 >= 0
             THEN DemoLoop(i + 1, r3, t, clock, day)
             ELSE t

----------------------------------------------------------------------------
\* Inputs.

Seeds == {1, 2}
Todays == {Day(2024, 3, 10)}
Lunch == <<"L", "u", "n", "c", "h">>

\* what the storage layer is called with directly
DbInputs ==
    {[amount |-> 5000, category |-> "Food",
      date |-> DateObj(Day(2024, 1, 15)), notes |-> Lunch],
     [amount |-> 2000, category |-> "Food",
      date |-> DateObj(Day(2024, 1, 15)), notes |-> None],
     [amount |-> 1250, category |-> "Housing",
      date |-> DateText(<<2024, 3, 2>>), notes |-> None]}

\* rows inserted one at a time, in all tables
ManualRows ==
    Cardinality({<<p, i>> \in Paths \X (1..MaxRows + (MaxDemo * DemoRows)) :
                    /\ i <= Len(stores[p].rows)
                    /\ stores[p].rows[i].notes # DemoNote})

----------------------------------------------------------------------------
\* The storage layer called directly.

Init ==
    /\ schema = {}
    /\ stores = [p \in Paths |-> [rows |-> <<>>, seq |-> 0]]
    /\ now = 0
    /\ today \in Todays
    /\ demos = 0
    /\ last = [op |-> "start"]

Tick ==
    /\ now < MaxTime
    /\ now' = now + 1
    /\ last' = [op |-> "tick"]
    /\ UNCHANGED <<schema, stores, today, demos>>

InitDb(path) ==
    /\ schema' = init_db(schema, path)
    /\ last' = [op |-> "init_db", path |-> path]
    /\ UNCHANGED <<stores, now, today, demos>>

\* add_expense on a file without the table raises sqlite3.OperationalError
AddExpense(path, in) ==
    /\ ManualRows < MaxRows
    /\ IF path \in schema
       THEN stores' = [stores EXCEPT
                          ![path] = add_expense(@, now, in.amount, in.category,
                                                in.date, in.notes)]
       ELSE UNCHANGED stores
    /\ last' = [op |-> "add_expense", path |-> path, in |-> in,
                raised |-> path \notin schema]
    /\ UNCHANGED <<schema, now, today, demos>>

\* fetch_expenses on a file without the table raises in read_sql_query
FetchExpenses(path, tie) ==
    /\ last' = IF path \in schema
               THEN [op |-> "fetch_expenses", path |-> path, raised |-> FALSE,
                     df |-> fetch_expenses(stores[path], tie)]
               ELSE [op |-> "fetch_expenses", path |-> path, raised |-> TRUE]
    /\ UNCHANGED <<schema, stores, now, today, demos>>

\* add_demo_data(path): init_db(path), then the loop, whose add_expense calls
\* take no path and so write to DB_PATH; the first of them raises when the
\* table is missing there.
add_demo_data(path, seed) ==
    /\ schema' = init_db(schema, path)
    /\ IF DB_PATH \in schema'
       THEN stores' = [stores EXCEPT
                          ![DB_PATH] = DemoLoop(0, seed, @, now, today)]
       ELSE UNCHANGED stores

AddDemoData(path, seed) ==
    /\ demos < MaxDemo
    /\ demos' = demos + 1
    /\ add_demo_data(path, seed)
    /\ last' = [op |-> "add_demo_data", path |-> path,
                raised |-> DB_PATH \notin schema']
    /\ UNCHANGED <<now, today>>


----------------------------------------------------------------------------
\* Texts.

UpperCase ==
    <<"A", "B", "C", "D", "E", "F", "G", "H", "I", "J", "K", "L", "M",
      "N", "O", "P", "Q", "R", "S", "T", "U", "V", "W", "X", "Y", "Z">>
LowerCase ==
    <<"a", "b", "c", "d", "e", "f", "g", "h", "i", "j", "k", "l", "m",
      "n", "o", "p", "q", "r", "s", "t", "u", "v", "w", "x", "y", "z">>

LowerChar(c) ==
    IF \E i \in 1..Len(UpperCase) : UpperCase[i] = c
    THEN LowerCase[CHOOSE i \in 1..Len(UpperCase) : UpperCase[i] = c]
    ELSE c

LowerText(t) == [i \in 1..Len(t) |-> LowerChar(t[i])]

\* whether text t has the text sub as a substring
HasSubstring(t, sub) ==
    \E i \in 0..(Len(t) - Len(sub)) : SubSeq(t, i + 1, i + Len(sub)) = sub

\* Series.astype(str) on one value of the notes column: str(None) is 'None'
astype_str(notes) == IF notes = None THEN <<"N", "o", "n", "e">> ELSE notes

\* Series.str.contains(pat, case=False, na=False) on one value: the pattern
\* is a text without regular-expression metacharacters
str_contains(value, pat) ==
    IF value = None THEN FALSE
    ELSE HasSubstring(LowerText(value), LowerText(pat))

----------------------------------------------------------------------------
\* app.py: the pages.  Every run of the script starts with init_db() and
\* df = fetch_expenses() on DB_PATH (lines 10 and 24).

\* Series.sum() of the amount column, rows lo..hi
RECURSIVE SumRange(_, _, _)
SumRange(rows, lo, hi) ==
    IF lo > hi THEN 0
    ELSE IF lo = hi THEN rows[lo].amount
    ELSE SumRange(rows, lo, (lo + hi) \div 2)
         + SumRange(rows, ((lo + hi) \div 2) + 1, hi)

SumAmount(rows) == SumRange(rows, 1, Len(rows))

MinDate(df) == CHOOSE d \in {df[i].date : i \in 1..Len(df)} :
                  \A i \in 1..Len(df) : d <= df[i].date
MaxDate(df) == CHOOSE d \in {df[i].date : i \in 1..Len(df)} :
                  \A i \in 1..Len(df) : d >= df[i].date

\* lines 65, 101: df[(df['date'] >= start) & (df['date'] <= end)]
BetweenDates(df, start, end) ==
    SelectSeq(df, LAMBDA r : r.date >= start /\ r.date <= end)

\* the category filter without the test of line 66
FilterCategoriesAlways(filtered, selected_cats) ==
    SelectSeq(filtered, LAMBDA r : r.category \in selected_cats)

\* lines 66-67: the category filter
FilterCategories(filtered, selected_cats) ==
    IF selected_cats # {}
    THEN SelectSeq(filtered, LAMBDA r : r.category \in selected_cats)
    ELSE filtered

\* lines 68-69: the search in the notes
FilterNotes(filtered, text_search) ==
    IF text_search # <<>>
    THEN SelectSeq(filtered,
                   LAMBDA r : str_contains(astype_str(r.notes), text_search))
    ELSE filtered

\* line 72: sort_values(by=['date','created_at'], ascending=[False, False]),
\* a stable sort: rows with equal keys keep the order they have in filtered
SortValues(filtered) ==
    LET pos == [i \in 1..Len(filtered) |-> [row |-> filtered[i], at |-> i]]
        sorted == SortSeq(pos, LAMBDA a, b :
                      \/ a.row.date > b.row.date
                      \/ a.row.date = b.row.date
                           /\ a.row.created_at > b.row.created_at
                      \/ a.row.date = b.row.date
                           /\ a.row.created_at = b.row.created_at
                           /\ a.at < b.at)
    IN  [i \in 1..Len(filtered) |-> sorted[i].row]

\* line 75: to_csv(index=False): the header, then a line per row; a date
\* is written as YYYY-MM-DD and a missing value as the empty field
CsvHeader == <<"id", "amount", "category", "date", "notes", "created_at">>
to_csv(filtered) ==
    <<CsvHeader>> \o
    [i \in 1..Len(filtered) |->
        <<filtered[i].id, filtered[i].amount, filtered[i].category,
          strftime(filtered[i].date),
          IF filtered[i].notes = None THEN <<>> ELSE filtered[i].notes,
          filtered[i].created_at>>]

\* lines 86-99: the start and the end of the timeframe
TimeframeEnd(df, timeframe, dr) ==
    IF timeframe = "Custom range" THEN dr[2] ELSE MaxDate(df)

TimeframeStart(df, timeframe, dr) ==
    LET end == MaxDate(df) IN
    CASE timeframe = "Custom range" -> dr[1]
      [] timeframe = "Last 30 days" -> end - 30
      [] timeframe = "Last 90 days" -> end - 90
      [] timeframe = "Year to date" -> Day(strftime(end)[1], 1, 1)
      [] OTHER -> MinDate(df)

\* line 103: the "Last 30 days" metric
Last30Days(df, end) == SumAmount(BetweenDates(df, end - 30, end))

\* the last day of the month day number n is in
MonthEnd(n) ==
    LET ymd == strftime(n)
    IN  Day(ymd[1], ymd[2], DaysInMonth(ymd[1], ymd[2]))

\* line 114: resample('M')['amount'].sum(): bins that end at month ends,
\* closed and labelled on the right, from the bin of the first date on
InBin(rows, edge) ==
    LET ymd == strftime(edge)
        prev == edge - DaysInMonth(ymd[1], ymd[2])
    IN  SelectSeq(rows, LAMBDA r : prev < r.date /\ r.date <= edge)

RECURSIVE MonthlyBins(_, _, _)
MonthlyBins(rows, edge, lastDate) ==
    LET bin == [date |-> edge, amount |-> SumAmount(InBin(rows, edge))]
    IN  IF edge >= lastDate THEN <<bin>>
        ELSE <<bin>> \o MonthlyBins(rows, MonthEnd(edge + 1), lastDate)

\* resampling that leaves out the months without rows
ResampleSparse(rows) ==
    IF rows = <<>> THEN <<>>
    ELSE SelectSeq(MonthlyBins(rows, MonthEnd(MinDate(rows)), MaxDate(rows)),
                   LAMBDA b : InBin(rows, b.date) # <<>>)

Resample(rows) ==
    IF rows = <<>> THEN <<>>
    ELSE MonthlyBins(rows, MonthEnd(MinDate(rows)), MaxDate(rows))

\* line 118: the label of a bin, strftime('%Y-%m')
MonthLabel(n) == <<strftime(n)[1], strftime(n)[2]>>

Monthly(rows) ==
    LET bins == Resample(rows)
    IN  [i \in 1..Len(bins) |->
            [label |-> MonthLabel(bins[i].date), amount |-> bins[i].amount]]

----------------------------------------------------------------------------
\* Inputs of the pages.

\* the form as it is first shown: the widgets' default values
BlankForm ==
    [amount |-> 0, category |-> categories[1], date |-> today, notes |-> <<>>]

\* what a script that seeds the app's store calls add_expense with
ScriptInputs == {in \in DbInputs : in.date.type = "str"}

\* what the Add Expense form is submitted with (notes is a text, never None)
FormInputs ==
    {[amount |-> 0, category |-> "Food", date |-> Day(2024, 1, 15),
      notes |-> <<>>],
     [amount |-> 5000, category |-> "Food", date |-> Day(2024, 1, 15),
      notes |-> Lunch],
     [amount |-> 3000, category |-> "Other", date |-> Day(2023, 12, 20),
      notes |-> <<>>]}

\* date ranges picked in a date_input
RangeInputs ==
    {<<Day(2024, 1, 1), Day(2024, 1, 31)>>,
     <<Day(2024, 1, 15), Day(2024, 3, 2)>>}

SearchInputs == {<<>>, <<"N">>, <<"l", "U", "n">>}

Timeframes ==
    {"Last 30 days", "Last 90 days", "Year to date", "All time", "Custom range"}

\* a date_input left as it is shown: it has its default value
Untouched == <<>>

\* the selections tried in the multiselect whose options are cats
Selections(cats) == {cats, {}, cats \cap {"Food"}}

----------------------------------------------------------------------------
\* The pages.

\* the test of line 40 written as amount < 0
AmountNegative(amount) == amount < 0

\* line 40: the amount the form refuses
AmountRefused(amount) == amount <= 0

\* lines 27-46
PageAddExpense(in, submitted, tie) ==
    LET accepted == submitted /\ ~AmountRefused(in.amount) IN
    /\ accepted => ManualRows < MaxRows
    /\ schema' = init_db(schema, DB_PATH)
    /\ stores' = IF accepted
                 THEN [stores EXCEPT
                          ![DB_PATH] = add_expense(@, now, in.amount,
                                                   in.category,
                                                   DateObj(in.date), in.notes)]
                 ELSE stores
    /\ last' = [op |-> "page", page |-> "Add Expense", in |-> in,
                submitted |-> submitted,
                message |-> IF ~submitted THEN "none"
                            ELSE IF accepted THEN "success" ELSE "error",
                df |-> fetch_expenses(stores'[DB_PATH], tie)]
    /\ UNCHANGED <<now, today, demos>>

\* lines 49-76
ViewOutput(df, date_range, selected_cats, text_search) ==
    LET byDate == BetweenDates(df, date_range[1], date_range[2])
        byCats == FilterCategories(byDate, selected_cats)
        filtered == FilterNotes(byCats, text_search)
    IN  [op |-> "page", page |-> "View & Export", df |-> df, empty |-> FALSE,
         date_range |-> date_range, selected_cats |-> selected_cats,
         text_search |-> text_search, byDate |-> byDate, byCats |-> byCats,
         filtered |-> filtered, shown |-> SortValues(filtered),
         csv |-> to_csv(filtered)]

PageView(picked, text_search, tie) ==
    /\ schema' = init_db(schema, DB_PATH)
    /\ LET df == fetch_expenses(stores[DB_PATH], tie) IN
       IF df = <<>>
       THEN last' = [op |-> "page", page |-> "View & Export", df |-> df,
                     empty |-> TRUE]
       ELSE LET cats == {df[i].category : i \in 1..Len(df)}
                date_range == IF picked # Untouched THEN picked
                              ELSE <<MinDate(df), MaxDate(df)>>
            IN  \E selected_cats \in Selections(cats) :
                   last' = ViewOutput(df, date_range, selected_cats,
                                      text_search)
    /\ UNCHANGED <<stores, now, today, demos>>

\* lines 79-121: the metrics and the monthly series
DashboardOutput(df, timeframe, dr) ==
    LET start == TimeframeStart(df, timeframe, dr)
        end == TimeframeEnd(df, timeframe, dr)
        df_filtered == BetweenDates(df, start, end)
    IN  [op |-> "page", page |-> "Dashboard", df |-> df, empty |-> FALSE,
         timeframe |-> timeframe, start |-> start, end |-> end,
         df_filtered |-> df_filtered, total |-> SumAmount(df_filtered),
         last_30_days |-> Last30Days(df, end),
         records |-> Len(df_filtered), monthly |-> Monthly(df_filtered)]

PageDashboard(timeframe, dr, tie) ==
    /\ schema' = init_db(schema, DB_PATH)
    /\ LET df == fetch_expenses(stores[DB_PATH], tie) IN
       last' = IF df = <<>>
               THEN [op |-> "page", page |-> "Dashboard", df |-> df,
                     empty |-> TRUE]
               ELSE DashboardOutput(df, timeframe, dr)
    /\ UNCHANGED <<stores, now, today, demos>>

\* lines 144-149; the button calls add_demo_data() with its default path
PageSettings(button, seed, tie) ==
    /\ button => demos < MaxDemo
    /\ IF button
       THEN /\ add_demo_data(DB_PATH, seed)
            /\ demos' = demos + 1
       ELSE /\ schema' = init_db(schema, DB_PATH)
            /\ UNCHANGED <<stores, demos>>
    /\ last' = [op |-> "page", page |-> "Settings", button |-> button,
                df |-> fetch_expenses(stores[DB_PATH], tie)]
    /\ UNCHANGED <<now, today>>

Next ==
    \/ Tick
    \/ \E in \in ScriptInputs : AddExpense(DB_PATH, in)
    \/ \E t \in TieOrders : PageAddExpense(BlankForm, FALSE, t)
    \/ \E in \in FormInputs, t \in TieOrders : PageAddExpense(in, TRUE, t)
    \/ \E picked \in RangeInputs \cup {Untouched}, q \in SearchInputs,
          t \in TieOrders : PageView(picked, q, t)
    \/ \E tf \in Timeframes \ {"Custom range"}, t \in TieOrders :
          PageDashboard(tf, Untouched, t)
    \/ \E dr \in RangeInputs, t \in TieOrders :
          PageDashboard("Custom range", dr, t)

Spec == Init /\ [][Next]_vars

\* The storage layer called directly, on either path.
NextDb ==
    \/ Tick
    \/ \E p \in Paths : InitDb(p)
    \/ \E p \in Paths, in \in DbInputs : AddExpense(p, in)
    \/ \E p \in Paths, t \in TieOrders : FetchExpenses(p, t)

SpecDb == Init /\ [][NextDb]_vars

\* The storage layer with the demo data, and the Settings page.
NextDemo ==
    \/ NextDb
    \/ \E p \in Paths, s \in Seeds : AddDemoData(p, s)
    \/ \E t \in TieOrders : PageSettings(FALSE, 0, t)
    \/ \E s \in Seeds, t \in TieOrders : PageSettings(TRUE, s, t)

SpecDemo == Init /\ [][NextDemo]_vars

----------------------------------------------------------------------------
\* Properties.

IsPrefix(s, t) == Len(s) <= Len(t) /\ SubSeq(t, 1, Len(s)) = s

\* the calendar day a date_str given to add_expense stands for
DayMeant(date_str) ==
    IF date_str.type = "date" THEN date_str.day
    ELSE Day(date_str.text[1], date_str.text[2], date_str.text[3])

AddedOk(op) == op.op = "add_expense" /\ ~op.raised
Fetched == last.op = "fetch_expenses" /\ ~last.raised
OnPage(page) == last.op = "page" /\ last.page = page
Viewing == OnPage("View & Export") /\ ~last.empty
Dashboard == OnPage("Dashboard") /\ ~last.empty

C2_NonPositiveRejected ==
    [][(/\ last'.op = "page"
        /\ last'.page = "Add Expense"
        /\ last'.submitted
        /\ last'.in.amount <= 0)
       => stores' = stores /\ last'.message = "error"]_vars

C2_Witness ==
    /\ OnPage("Add Expense")
    /\ last.submitted
    /\ last.in.amount = 0
    /\ last.message = "error"
    /\ Len(last.df) = MaxRows

\* C3 as claimed: in the result of fetch_expenses, A precedes B if and only
\* if A.date > B.date, or the dates are equal and A.created_at >= B.created_at.
C3_PrecedesIffKeys ==
    Fetched =>
       \A i, j \in 1..Len(last.df) :
          i # j =>
             (i < j <=>
                \/ last.df[i].date > last.df[j].date
                \/ /\ last.df[i].date = last.df[j].date
                   /\ last.df[i].created_at >= last.df[j].created_at)

\* C4 as claimed: of two rows with the same date, the one inserted later
\* comes first in the result of fetch_expenses.
C4_LaterInsertFirst ==
    Fetched =>
       \A i, j \in 1..Len(last.df) :
          (last.df[i].date = last.df[j].date /\ last.df[i].id > last.df[j].id)
             => i < j

\* C5: no operation changes or removes a row: every table keeps the rows it
\* had, field by field, and the ids of a table are pairwise distinct.
C5_RowsKept ==
    /\ [][\A p \in Paths : IsPrefix(stores[p].rows, stores'[p].rows)]_vars
    /\ [](\A p \in Paths :
             Cardinality({r.id : r \in Range(stores[p].rows)})
                = Len(stores[p].rows))

C5_Witness ==
    /\ OnPage("Settings")
    /\ ~last.button
    /\ Len(stores[DB_PATH].rows) = DemoRows + MaxRows
    /\ stores[DB_PATH].rows[1].notes # DemoNote
    /\ stores[DB_PATH].rows[DemoRows + MaxRows].notes # DemoNote

\* C6 as claimed: add_demo_data on a store adds DemoRows rows to that store,
\* each with a category of the list, an amount of 5 to 800, a date at most
\* 365 days before today and the demo note, and keeps the rows it had.
DemoRow(r) ==
    /\ r.category \in Range(categories)
    /\ r.amount >= DemoMinCents /\ r.amount <= DemoMaxCents
    /\ to_datetime(r.date) <= today
    /\ to_datetime(r.date) >= today - DemoMaxDaysBack
    /\ r.notes = DemoNote

C6_DemoRowsInThatStore ==
    [][last'.op = "add_demo_data" /\ ~last'.raised =>
         LET before == stores[last'.path].rows
             after == stores'[last'.path].rows
         IN  /\ Len(after) = Len(before) + DemoRows
             /\ IsPrefix(before, after)
             /\ \A i \in (Len(before) + 1)..Len(after) : DemoRow(after[i])
      ]_vars

\* C7 as claimed: the category filter keeps exactly the rows whose category
\* is selected, so with nothing selected the table shown and the CSV export
\* have no rows.
C7_EmptySelectionShowsNothing ==
    Viewing =>
       /\ last.byCats = SelectSeq(last.byDate,
                           LAMBDA r : r.category \in last.selected_cats)
       /\ last.selected_cats = {} =>
             last.shown = <<>> /\ to_csv(last.filtered) = <<CsvHeader>>

\* C7 amended: a non-empty selection keeps exactly the rows whose category
\* is selected; an empty selection filters nothing, so the table shown and
\* the CSV export hold every row that passes the date range and the search.
C7_EmptySelectionKeepsAll ==
    Viewing =>
       /\ \A i \in 1..Len(last.df) :
             (\E k \in 1..Len(last.byCats) : last.byCats[k] = last.df[i])
             <=> /\ last.df[i].date >= last.date_range[1]
                 /\ last.df[i].date <= last.date_range[2]
                 /\ \/ last.selected_cats = {}
                    \/ last.df[i].category \in last.selected_cats
       /\ last.selected_cats = {} =>
             /\ last.filtered = FilterNotes(last.byDate, last.text_search)
             /\ Len(last.shown) = Len(last.filtered)
             /\ Len(last.csv) = Len(last.filtered) + 1

C7_Witness ==
    /\ Viewing
    /\ last.selected_cats = {}
    /\ last.text_search = <<>>
    /\ Len(last.df) = MaxRows
    /\ Len(last.shown) = MaxRows
    /\ Len(last.csv) = MaxRows + 1

\* C8 as claimed: a non-empty search keeps exactly the rows whose notes
\* contain the term, whatever the case of the letters, and never a row
\* without notes.
C8_SearchSkipsMissingNotes ==
    Viewing /\ last.text_search # <<>> =>
       \A i \in 1..Len(last.byCats) :
          (\E k \in 1..Len(last.filtered) : last.filtered[k] = last.byCats[i])
          <=> /\ last.byCats[i].notes # None
              /\ HasSubstring(LowerText(last.byCats[i].notes),
                              LowerText(last.text_search))

\* C9 as claimed: whatever the timeframe, the "Last 30 days" metric is the
\* sum of the amounts of the rows dated from 30 days before the latest date
\* of all rows up to that date.
C9_Last30DaysFromLatestDate ==
    Dashboard =>
       last.last_30_days =
          SumAmount(SelectSeq(last.df,
                       LAMBDA r : /\ r.date >= MaxDate(last.df) - 30
                                  /\ r.date <= MaxDate(last.df)))

\* C10: the monthly series of the rows in the timeframe has one bucket for
\* every calendar month from the month of the earliest of these rows to the
\* month of the latest, in order and without a gap; the value of a bucket
\* is the sum of the amounts of the rows dated in its month, zero when
\* there is none.
YearMonth(n) == <<DateOfDay(n)[1], DateOfDay(n)[2]>>
MonthAfter(ym) == IF ym[2] = 12 THEN <<ym[1] + 1, 1>> ELSE <<ym[1], ym[2] + 1>>

C10_MonthlyBucketsComplete ==
    Dashboard =>
       IF last.df_filtered = <<>> THEN last.monthly = <<>>
       ELSE /\ last.monthly # <<>>
            /\ last.monthly[1].label = YearMonth(MinDate(last.df_filtered))
            /\ last.monthly[Len(last.monthly)].label
                  = YearMonth(MaxDate(last.df_filtered))
            /\ \A i \in 1..(Len(last.monthly) - 1) :
                  last.monthly[i + 1].label = MonthAfter(last.monthly[i].label)
            /\ \A i \in 1..Len(last.monthly) :
                  last.monthly[i].amount =
                     SumAmount(SelectSeq(last.df_filtered,
                        LAMBDA r : YearMonth(r.date) = last.monthly[i].label))

C10_Witness ==
    /\ Dashboard
    /\ Len(last.monthly) = 4
    /\ last.monthly[1].label = <<2023, 12>>
    /\ last.monthly[1].amount > 0
    /\ last.monthly[3].amount = 0
    /\ last.monthly[4].label = <<2024, 3>>
    /\ last.monthly[4].amount > 0

====
